---- MODULE Spec2Model ----
(***************************************************************************)
(* Model of the anatomy viewer's core (components/viewer/AnatomyModelGLTF): *)
(* the glTF name normaliser, the three-stage catalog lookup, the structure  *)
(* filter, the binding pass over the scene's meshes and the per-structure   *)
(* visibility / highlight resolution against the interaction store.         *)
(*                                                                          *)
(* Strings are TLA+ strings; TLC evaluates Len, \o and SubSeq on them, so   *)
(* the regular expressions of the source are written as scans over the      *)
(* characters of the string.                                                *)
(***************************************************************************)
EXTENDS Integers, Sequences, FiniteSets, TLC

VARIABLES
    \* ---- pure-function harness (normaliser and lookup)
    gltfName,            \* the raw identifier handed to the functions
    normalized,          \* normalizeGltfName(gltfName), once computed
    renormalized,        \* normalizeGltfName(normalized), once computed
    match,               \* findMetadataForMesh(gltfName, catalog), once computed
    npc,                 \* position of the harness
    \* ---- binding pass (AnatomyModelGLTF.processedStructures)
    catalog,             \* metadata.structures : key -> StructureMetadata
    scene,               \* the meshes of the scene in traversal order (their names)
    idx,                 \* number of meshes traversed so far
    structures,          \* const structures: ProcessedStructure[]
    usedMetadataKeys,    \* const usedMetadataKeys = new Set<string>()
    skippedByTypeOrName,
    skippedDuplicate,
    unmatchedCount,
    \* ---- interaction store (useAnatomyStore) and mounted StructureMesh components
    hoveredStructureId,
    selectedStructureId,
    layerVisibility,
    peelDepth,
    searchQuery,
    hovered,             \* useState(false) of each StructureMesh, by uniqueKey
    animatedOpacity,     \* useRef(1) of each StructureMesh, in hundredths
    isInteractive,       \* the isInteractive captured by each component's last render
    closure,             \* the targets captured by each component's last render
    pointerAt,           \* the mesh the renderer's raycaster holds as hovered, or Null
    fatal,               \* a render threw: the viewer is gone
    frames,              \* frames drawn so far, where the frames are counted
    lastEvent            \* history: the last handler run and the values it found

normVars == <<gltfName, normalized, renormalized, match, npc>>
bindVars == <<scene, idx, structures, usedMetadataKeys,
              skippedByTypeOrName, skippedDuplicate, unmatchedCount>>
storeVars == <<hoveredStructureId, selectedStructureId, layerVisibility,
               peelDepth, searchQuery>>
meshVars == <<hovered, animatedOpacity, isInteractive, closure, pointerAt, fatal,
             frames, lastEvent>>
vars == <<normVars, catalog, bindVars, storeVars, meshVars>>

(***************************************************************************)
(* Bounds of the model.                                                     *)
(***************************************************************************)
MaxLen == 4        \* longest generated raw identifier
MaxScene == 3      \* most meshes in a generated scene
MaxPeel == 2       \* largest peel depth the slider is moved to
MaxFrames == 3     \* most frames drawn where the frames are counted

(***************************************************************************)
(* Characters and strings.                                                  *)
(***************************************************************************)
\* The value standing for JavaScript's null.
Null == "<null>"

Digits == {"0", "1", "2", "3", "4", "5", "6", "7", "8", "9"}

CharAt(s, i) == SubSeq(s, i, i)

DropFirst(s) == SubSeq(s, 2, Len(s))

\* String.prototype.toLowerCase on one ASCII character.
LowerChar(c) ==
    CASE c = "A" -> "a" [] c = "B" -> "b" [] c = "C" -> "c" [] c = "D" -> "d"
      [] c = "E" -> "e" [] c = "F" -> "f" [] c = "G" -> "g" [] c = "H" -> "h"
      [] c = "I" -> "i" [] c = "J" -> "j" [] c = "K" -> "k" [] c = "L" -> "l"
      [] c = "M" -> "m" [] c = "N" -> "n" [] c = "O" -> "o" [] c = "P" -> "p"
      [] c = "Q" -> "q" [] c = "R" -> "r" [] c = "S" -> "s" [] c = "T" -> "t"
      [] c = "U" -> "u" [] c = "V" -> "v" [] c = "W" -> "w" [] c = "X" -> "x"
      [] c = "Y" -> "y" [] c = "Z" -> "z" [] OTHER -> c

RECURSIVE toLowerCase(_)
toLowerCase(s) ==
    IF s = "" THEN ""
    ELSE LowerChar(CharAt(s, 1)) \o toLowerCase(DropFirst(s))

\* String.prototype.includes
includes(s, p) ==
    \E i \in 1..(Len(s) - Len(p) + 1) : SubSeq(s, i, i + Len(p) - 1) = p

endsWith(s, p) ==
    Len(s) >= Len(p) /\ SubSeq(s, Len(s) - Len(p) + 1, Len(s)) = p

(***************************************************************************)
(* normalizeGltfName                                                        *)
(***************************************************************************)
\* The rest of s after its longest prefix of digits (the greedy \d+).
RECURSIVE SkipDigits(_)
SkipDigits(s) ==
    IF s # "" /\ CharAt(s, 1) \in Digits THEN SkipDigits(DropFirst(s)) ELSE s

\* .replace(/00\d+/g, ''): leftmost matches first, each match taken greedily,
\* the scan resuming after the match.
RECURSIVE RemoveNumericSuffixes(_)
RemoveNumericSuffixes(s) ==
    IF Len(s) < 3 THEN s
    ELSE IF SubSeq(s, 1, 2) = "00" /\ CharAt(s, 3) \in Digits
         THEN RemoveNumericSuffixes(SkipDigits(SubSeq(s, 3, Len(s))))
         ELSE CharAt(s, 1) \o RemoveNumericSuffixes(DropFirst(s))

\* The rest of s after its longest prefix of underscores.
RECURSIVE SkipUnderscores(_)
SkipUnderscores(s) ==
    IF s # "" /\ CharAt(s, 1) = "_" THEN SkipUnderscores(DropFirst(s)) ELSE s

\* .replace(/__+/g, '_')
RECURSIVE CollapseUnderscores(_)
CollapseUnderscores(s) ==
    IF Len(s) < 2 THEN s
    ELSE IF SubSeq(s, 1, 2) = "__"
         THEN "_" \o CollapseUnderscores(SkipUnderscores(s))
         ELSE CharAt(s, 1) \o CollapseUnderscores(DropFirst(s))

\* .replace(/_+$/, '')
RECURSIVE StripTrailingUnderscores(_)
StripTrailingUnderscores(s) ==
    IF s # "" /\ CharAt(s, Len(s)) = "_"
    THEN StripTrailingUnderscores(SubSeq(s, 1, Len(s) - 1))
    ELSE s

\* Variants of normalizeGltfName with one step misplaced or missing.
normalizeGltfName_SuffixLast(name) ==
    RemoveNumericSuffixes(
        StripTrailingUnderscores(CollapseUnderscores(toLowerCase(name))))

normalizeGltfName_NoLower(name) ==
    StripTrailingUnderscores(CollapseUnderscores(RemoveNumericSuffixes(name)))

normalizeGltfName(name) ==
    StripTrailingUnderscores(
        CollapseUnderscores(toLowerCase(RemoveNumericSuffixes(name))))

(***************************************************************************)
(* findMetadataForMesh                                                      *)
(***************************************************************************)
\* The value standing for the function's null result.
NoMatch == [key |-> Null, stage |-> 0]

\* structures[k] is truthy exactly for the keys of the catalog: every value of
\* the catalog is a StructureMetadata object.
hasEntry(structs, k) == k \in DOMAIN structs

\* Variant of findMetadataForMesh that tries the lowercased form before the
\* normalized one.
findMetadataForMesh_LowerFirst(name, structs) ==
    IF hasEntry(structs, name)
    THEN [key |-> name, data |-> structs[name], stage |-> 1]
    ELSE LET lowercased == toLowerCase(name) IN
         IF hasEntry(structs, lowercased)
         THEN [key |-> lowercased, data |-> structs[lowercased], stage |-> 3]
         ELSE LET norm == normalizeGltfName(name) IN
              IF hasEntry(structs, norm)
              THEN [key |-> norm, data |-> structs[norm], stage |-> 2]
              ELSE NoMatch

\* The result carries the key and the data as in the source and, to tell the
\* three returns apart, the number of the stage that returned.
findMetadataForMesh(name, structs) ==
    IF hasEntry(structs, name)
    THEN [key |-> name, data |-> structs[name], stage |-> 1]
    ELSE LET norm == normalizeGltfName(name) IN
         IF hasEntry(structs, norm)
         THEN [key |-> norm, data |-> structs[norm], stage |-> 2]
         ELSE LET lowercased == toLowerCase(name) IN
              IF hasEntry(structs, lowercased)
              THEN [key |-> lowercased, data |-> structs[lowercased], stage |-> 3]
              ELSE NoMatch

(***************************************************************************)
(* Structure filter                                                         *)
(***************************************************************************)
EXCLUDE_NAME_PATTERNS ==
    {"plane", "planes", "flexion", "extension", "rotation", "abduction",
     "adduction", "pronation", "supination", "circumduction",
     "lateral_rectus_muscle", "medial_rectus_muscle", "superior_rectus_muscle",
     "inferior_rectus_muscle", "superior_oblique_muscle", "inferior_oblique_muscle",
     "pronator_quadratus", "pronator_teres", "supinator", "oblique_cord",
     "plantae", "popliteal", "femoris", "tibial", "fibular", "peroneal",
     "gastrocnemius", "soleus", "plantaris", "lymph_node"}

EXCLUDE_TYPES == {"organ"}

\* s without its longest suffix of digits.
RECURSIVE StripTrailingDigits(_)
StripTrailingDigits(s) ==
    IF s # "" /\ CharAt(s, Len(s)) \in Digits
    THEN StripTrailingDigits(SubSeq(s, 1, Len(s) - 1))
    ELSE s

\* /[lr]$/i : s ends in l or r of either case; SideStem is what precedes it.
EndsInSide(s) == s # "" /\ LowerChar(CharAt(s, Len(s))) \in {"l", "r"}
SideStem(s) == SubSeq(s, 1, Len(s) - 1)

\* EXCLUDE_SUFFIX_PATTERNS.some(pattern => pattern.test(id)); all five carry
\* the i flag, so they are tested on the lowercased letters.
matchesSuffixPattern(id) ==
    LET low == toLowerCase(id) IN
    \/ endsWith(low, "_i")                                        \* /_i$/i
    \/ /\ EndsInSide(low)                                         \* /_o\d*[lr]$/i
       /\ endsWith(StripTrailingDigits(SideStem(low)), "_o")
    \/ /\ EndsInSide(low)                                         \* /_e\d+[lr]$/i
       /\ StripTrailingDigits(SideStem(low)) # SideStem(low)
       /\ endsWith(StripTrailingDigits(SideStem(low)), "_e")
    \/ endsWith(low, "_el")                                       \* /_el$/i
    \/ endsWith(low, "_er")                                       \* /_er$/i

\* Variant of the filter that tests the names only.
shouldRenderByTypeAndName_NamesOnly(metadata) ==
    LET nameLower == toLowerCase(metadata.meshId) IN
    /\ ~\E pattern \in EXCLUDE_NAME_PATTERNS : includes(nameLower, pattern)
    /\ ~matchesSuffixPattern(metadata.meshId)

shouldRenderByTypeAndName(metadata) ==
    IF metadata.type \in EXCLUDE_TYPES THEN FALSE
    ELSE LET nameLower == toLowerCase(metadata.meshId) IN
         IF \E pattern \in EXCLUDE_NAME_PATTERNS : includes(nameLower, pattern)
         THEN FALSE
         ELSE IF matchesSuffixPattern(metadata.meshId) THEN FALSE
         ELSE TRUE

(***************************************************************************)
(* Catalogs (torso_metadata.json is read-only input: a record keyed by the  *)
(* structure's key, each value carrying that key as its meshId).            *)
(***************************************************************************)
\* A StructureMetadata; regions and center are carried through untouched and
\* play no part in binding or resolution.
Entry(id, name, type, layer) ==
    [meshId |-> id, originalName |-> name, type |-> type, layer |-> layer]

\* The entry a generated catalog holds under key k.
EntryFor(k) ==
    CASE k = "hip_bone"       -> Entry(k, "Hip bone", "bone", 2)
      [] k = "Hip_Bone"       -> Entry(k, "Hip Bone (L)", "bone", 2)
      [] k = "pelvis_bone"    -> Entry(k, "Pelvis", "bone", 3)
      [] k = "psoas_major"    -> Entry(k, "Psoas Major", "muscle", 3)
      [] k = "rectus_sheath"  -> Entry(k, "Rectus sheath", "fascia", 1)
      [] k = "liver"          -> Entry(k, "Liver", "organ", 2)
      [] k = "sagittal_plane" -> Entry(k, "Sagittal plane", "fascia", 0)
      [] k = "Flexion_arrow"  -> Entry(k, "Flexion", "muscle", 0)
      [] k = "rib_i"          -> Entry(k, "Rib (insertion)", "bone", 2)
      [] k = "psoas_o1L"      -> Entry(k, "Psoas origin L", "muscle", 3)
      [] k = "psoas_e2r"      -> Entry(k, "Psoas end R", "muscle", 3)
      [] k = "psoas_el"       -> Entry(k, "Psoas end L", "muscle", 3)
      [] k = "psoas_er"       -> Entry(k, "Psoas end R", "muscle", 3)
      [] k = "disc_1001"      -> Entry(k, "Disc 1001", "cartilage", 2)
      [] k = "vagus_nerve"    -> Entry(k, "Vagus nerve", "nerve", 1)
      [] OTHER                -> Entry(k, k, "muscle", 0)

CatalogOf(keys) == [k \in keys |-> EntryFor(k)]

(***************************************************************************)
(* Harness for the pure functions: one raw identifier, one catalog.         *)
(***************************************************************************)
Alphabet == {"a", "A", "_", "0", "1"}

RECURSIVE StringsUpTo(_)
StringsUpTo(n) ==
    IF n = 0 THEN {""}
    ELSE LET shorter == StringsUpTo(n - 1) IN
         shorter \cup {s \o c : s \in shorter, c \in Alphabet}

ExampleNames ==
    {"Hip_Bone", "Hip_bone001", "pelvis_bone001", "pelvis_bone002",
     "inguinal_ligament001", "inguinal_ligament_1001", "Hip__Bone001_"}

RawInputs == StringsUpTo(MaxLen) \cup ExampleNames

\* The catalogs a raw identifier is looked up in: every choice of which of its
\* three lookup forms are keys, next to a key it never resolves to.
LookupCatalogs(name) ==
    {CatalogOf(ks \cup {"hip_bone"}) :
        ks \in SUBSET {name, normalizeGltfName(name), toLowerCase(name)}}

NotComputed == "<not computed>"

\* The locals of a binding pass before its first mesh.
InitPass ==
    /\ idx = 0
    /\ structures = <<>>
    /\ usedMetadataKeys = {}
    /\ skippedByTypeOrName = 0
    /\ skippedDuplicate = 0
    /\ unmatchedCount = 0

\* The keys of LayerVisibility.
LayerKeys == {"bones", "muscles", "tendons", "ligaments", "organs"}

\* The record kept of a handler run: its kind ("none", "store", "tick",
\* "over", "out", "click"), the mesh it ran on, and the displayed opacities,
\* selected key and hovered key it found.
Event(kind, key, opacity, selected, hoveredId) ==
    [kind |-> kind, key |-> key, opacity |-> opacity,
     selected |-> selected, hoveredId |-> hoveredId]

\* The store's defaults: nothing hovered or selected, every layer visible,
\* nothing peeled, no query.
InitStoreDefaults ==
    /\ hoveredStructureId = Null
    /\ selectedStructureId = Null
    /\ layerVisibility = [k \in LayerKeys |-> TRUE]
    /\ peelDepth = 0
    /\ searchQuery = ""

\* The store's defaults, and no StructureMesh mounted.
InitStore ==
    /\ InitStoreDefaults
    /\ hovered = <<>>
    /\ animatedOpacity = <<>>
    /\ isInteractive = <<>>
    /\ closure = <<>>
    /\ pointerAt = Null
    /\ fatal = FALSE
    /\ frames = 0
    /\ lastEvent = Event("none", Null, <<>>, Null, Null)

InitNorm ==
    /\ gltfName \in RawInputs
    /\ catalog \in LookupCatalogs(gltfName)
    /\ normalized = NotComputed
    /\ renormalized = NotComputed
    /\ match = NotComputed
    /\ npc = "start"
    /\ scene = <<>>
    /\ InitPass
    /\ InitStore

Normalize ==
    /\ npc = "start"
    /\ normalized' = normalizeGltfName(gltfName)
    /\ npc' = "normalized"
    /\ UNCHANGED <<gltfName, renormalized, match, catalog, bindVars, storeVars, meshVars>>

Renormalize ==
    /\ npc = "normalized"
    /\ renormalized' = normalizeGltfName(normalized)
    /\ npc' = "renormalized"
    /\ UNCHANGED <<gltfName, normalized, match, catalog, bindVars, storeVars, meshVars>>

Lookup ==
    /\ npc = "renormalized"
    /\ match' = findMetadataForMesh(gltfName, catalog)
    /\ npc' = "looked"
    /\ UNCHANGED <<gltfName, normalized, renormalized, catalog, bindVars, storeVars, meshVars>>

NextNorm == Normalize \/ Renormalize \/ Lookup

SpecNorm == InitNorm /\ [][NextNorm]_vars

(***************************************************************************)
(* Properties of the normaliser and the lookup (under SpecNorm).            *)
(***************************************************************************)
Looked == npc = "looked"

HipCase ==
    /\ Looked
    /\ gltfName = "Hip_Bone"
    /\ DOMAIN catalog = {"hip_bone"}

\* C5 as stated: with hip_bone the only relevant key, Hip_Bone is matched by
\* the lowercase-fallback stage (stage 3).
C5_Original == HipCase => (match # NoMatch /\ match.stage = 3)

\* C5 amended: with hip_bone the only relevant key, Hip_Bone binds to
\* hip_bone, and the match is produced by the normalized stage (stage 2),
\* the normaliser lowercasing by itself; the record passes the filter.
C5_Amended ==
    HipCase =>
        /\ match # NoMatch
        /\ match.key = "hip_bone"
        /\ match.stage = 2
        /\ shouldRenderByTypeAndName(match.data)

C5_Witness == HipCase /\ match.key = "hip_bone"

\* C6: the normaliser is idempotent: normalizing a normalized identifier
\* returns it unchanged.
C6_Idempotent ==
    npc \in {"renormalized", "looked"} => renormalized = normalized

\* C6 witness: an identifier that loses a numeric suffix, capitals, a doubled
\* underscore and a trailing underscore, normalized twice.
C6_Witness ==
    /\ npc = "renormalized"
    /\ gltfName = "Hip__Bone001_"
    /\ normalized = "hip_bone"
    /\ renormalized = "hip_bone"

(***************************************************************************)
(* The binding pass: AnatomyModelGLTF.processedStructures.                  *)
(***************************************************************************)
\* processGLTFMesh: the mesh keeps the child's name (newMesh.name = child.name);
\* child.node is the child's position in the traversal and stands for the
\* identity of the scene object the geometry was cloned from.
processGLTFMesh(child, metadata, uniqueKey) ==
    [uniqueKey |-> uniqueKey, mesh |-> child, metadata |-> metadata]

\* The locals of the useMemo callback, as one record.
BinderState ==
    [structures |-> structures,
     usedMetadataKeys |-> usedMetadataKeys,
     skippedByTypeOrName |-> skippedByTypeOrName,
     skippedDuplicate |-> skippedDuplicate,
     unmatchedCount |-> unmatchedCount]

EmptyBinderState ==
    [structures |-> <<>>,
     usedMetadataKeys |-> {},
     skippedByTypeOrName |-> 0,
     skippedDuplicate |-> 0,
     unmatchedCount |-> 0]

\* Variant of the callback that marks the key as used before filtering.
traverseCallback_MarkBeforeFilter(st, child, structs) ==
    LET found == findMetadataForMesh(child.name, structs) IN
    IF found = NoMatch
    THEN [st EXCEPT !.unmatchedCount = @ + 1]
    ELSE IF found.key \in st.usedMetadataKeys
    THEN [st EXCEPT !.skippedDuplicate = @ + 1]
    ELSE IF ~shouldRenderByTypeAndName(found.data)
    THEN [st EXCEPT !.skippedByTypeOrName = @ + 1,
                    !.usedMetadataKeys = @ \cup {found.key}]
    ELSE [st EXCEPT !.usedMetadataKeys = @ \cup {found.key},
                    !.structures = Append(@,
                        processGLTFMesh(child, found.data, child.name))]

\* Variant of the callback that hands the matched key on as the unique key.
traverseCallback_KeyAsHandle(st, child, structs) ==
    LET found == findMetadataForMesh(child.name, structs) IN
    IF found = NoMatch
    THEN [st EXCEPT !.unmatchedCount = @ + 1]
    ELSE IF found.key \in st.usedMetadataKeys
    THEN [st EXCEPT !.skippedDuplicate = @ + 1]
    ELSE IF ~shouldRenderByTypeAndName(found.data)
    THEN [st EXCEPT !.skippedByTypeOrName = @ + 1]
    ELSE [st EXCEPT !.usedMetadataKeys = @ \cup {found.key},
                    !.structures = Append(@,
                        processGLTFMesh(child, found.data, found.key))]

\* Variant of the callback in which a later mesh replaces the earlier one
\* bound to the same key.
traverseCallback_LastWins(st, child, structs) ==
    LET found == findMetadataForMesh(child.name, structs) IN
    IF found = NoMatch
    THEN [st EXCEPT !.unmatchedCount = @ + 1]
    ELSE IF ~shouldRenderByTypeAndName(found.data)
    THEN [st EXCEPT !.skippedByTypeOrName = @ + 1]
    ELSE IF found.key \in st.usedMetadataKeys
    THEN [st EXCEPT !.skippedDuplicate = @ + 1,
                    !.structures =
                        [i \in DOMAIN @ |->
                            IF @[i].metadata.meshId = found.data.meshId
                            THEN processGLTFMesh(child, found.data, child.name)
                            ELSE @[i]]]
    ELSE [st EXCEPT !.usedMetadataKeys = @ \cup {found.key},
                    !.structures = Append(@,
                        processGLTFMesh(child, found.data, child.name))]

\* Variant of the callback that skips a duplicate without counting it.
traverseCallback_DuplicateUncounted(st, child, structs) ==
    LET found == findMetadataForMesh(child.name, structs) IN
    IF found = NoMatch
    THEN [st EXCEPT !.unmatchedCount = @ + 1]
    ELSE IF found.key \in st.usedMetadataKeys
    THEN st
    ELSE IF ~shouldRenderByTypeAndName(found.data)
    THEN [st EXCEPT !.skippedByTypeOrName = @ + 1]
    ELSE [st EXCEPT !.usedMetadataKeys = @ \cup {found.key},
                    !.structures = Append(@,
                        processGLTFMesh(child, found.data, child.name))]

\* The scene.traverse callback on one mesh (nodes that are no THREE.Mesh are
\* passed over and are left out of the scene).
traverseCallback(st, child, structs) ==
    LET found == findMetadataForMesh(child.name, structs) IN
    IF found = NoMatch
    THEN [st EXCEPT !.unmatchedCount = @ + 1]
    ELSE IF found.key \in st.usedMetadataKeys
    THEN [st EXCEPT !.skippedDuplicate = @ + 1]
    ELSE IF ~shouldRenderByTypeAndName(found.data)
    THEN [st EXCEPT !.skippedByTypeOrName = @ + 1]
    ELSE [st EXCEPT !.usedMetadataKeys = @ \cup {found.key},
                    !.structures = Append(@,
                        processGLTFMesh(child, found.data, child.name))]

\* The i-th mesh of the scene.
Child(sc, i) == [name |-> sc[i], node |-> i]

\* The whole pass over a scene.
RECURSIVE BindPrefix(_, _, _)
BindPrefix(sc, n, structs) ==
    IF n = 0 THEN EmptyBinderState
    ELSE traverseCallback(BindPrefix(sc, n - 1, structs), Child(sc, n), structs)

processedStructures(sc, structs) == BindPrefix(sc, Len(sc), structs).structures

\* Raw mesh names of the generated scenes.
RawNames ==
    {"hip_bone", "Hip_Bone", "hip_bone001", "hip_bone002",
     "liver001", "Sagittal_Plane", "rib_i002", "Disc_1001", "unknown_mesh"}

Scenes == UNION {[1..n -> RawNames] : n \in 0..MaxScene}

BindCatalogs ==
    {CatalogOf({"hip_bone", "psoas_major", "liver", "sagittal_plane", "rib_i",
                "disc_1001"}),
     CatalogOf({"hip_bone", "Hip_Bone", "psoas_major", "rib_i", "disc_1"}),
     CatalogOf({"hip_bone001", "hip_bone", "Liver", "psoas_o1L"})}

\* The harness of the pure functions, unused.
InitHarnessIdle ==
    /\ gltfName = ""
    /\ normalized = NotComputed
    /\ renormalized = NotComputed
    /\ match = NotComputed
    /\ npc = "idle"

InitBind ==
    /\ InitHarnessIdle
    /\ catalog \in BindCatalogs
    /\ scene \in Scenes
    /\ InitPass
    /\ InitStore

\* One invocation of the scene.traverse callback, on the next mesh.
Traverse ==
    /\ idx < Len(scene)
    /\ LET st == traverseCallback(BinderState, Child(scene, idx + 1), catalog) IN
        /\ structures' = st.structures
        /\ usedMetadataKeys' = st.usedMetadataKeys
        /\ skippedByTypeOrName' = st.skippedByTypeOrName
        /\ skippedDuplicate' = st.skippedDuplicate
        /\ unmatchedCount' = st.unmatchedCount
    /\ idx' = idx + 1
    /\ UNCHANGED <<normVars, catalog, scene, storeVars, meshVars>>

NextBind == Traverse

SpecBind == InitBind /\ [][NextBind]_vars

(***************************************************************************)
(* Properties of the binding pass (under SpecBind).                         *)
(***************************************************************************)
\* What the mesh at position j of the scene resolves to.
Resolved(j) == findMetadataForMesh(scene[j], catalog)

\* The catalog keys of the structures emitted so far.
BoundKeys == {structures[i].metadata.meshId : i \in DOMAIN structures}

PassDone == idx = Len(scene)

\* C1: the consumed catalog keys are exactly the catalog keys of the emitted
\* structures: as many of the one as of the other, and no key bound twice.
C1_ConsumedAreBound ==
    /\ usedMetadataKeys = BoundKeys
    /\ Cardinality(usedMetadataKeys) = Len(structures)
    /\ \A i, j \in DOMAIN structures :
            i # j => structures[i].metadata.meshId # structures[j].metadata.meshId

\* C1 witness: a finished pass that bound, skipped a duplicate and filtered.
C1_Witness ==
    /\ PassDone
    /\ Len(structures) >= 1
    /\ skippedDuplicate >= 1
    /\ skippedByTypeOrName >= 1

\* C2: every emitted structure carries the unnormalized name of the mesh it
\* was made from as its handle, and no two structures share a handle.
C2_HandlesOriginalAndUnique ==
    /\ \A i \in DOMAIN structures :
            /\ structures[i].mesh.node \in 1..idx
            /\ structures[i].uniqueKey = scene[structures[i].mesh.node]
            /\ structures[i].mesh.name = structures[i].uniqueKey
    /\ \A i, j \in DOMAIN structures :
            i # j => structures[i].uniqueKey # structures[j].uniqueKey

\* C2 witness: the same raw identifier twice, needing normalization, bound once.
C2_Witness ==
    /\ PassDone
    /\ Len(scene) >= 2
    /\ scene[1] = scene[2]
    /\ Len(structures) >= 1
    /\ structures[1].uniqueKey = scene[1]
    /\ structures[1].uniqueKey # structures[1].metadata.meshId
    /\ skippedDuplicate >= 1

\* The positions whose mesh resolves to a renderable key that an earlier
\* mesh of the pass resolved to as well.
LaterOfSameKey ==
    {j \in 1..idx :
        /\ Resolved(j) # NoMatch
        /\ shouldRenderByTypeAndName(Resolved(j).data)
        /\ \E i \in 1..(j - 1) : Resolved(i).key = Resolved(j).key}

\* C3: of the meshes resolving to one renderable key the first in encounter
\* order is the one bound; each later one is skipped and counted once as
\* a duplicate.
C3_FirstMatchWins ==
    /\ \A i \in DOMAIN structures :
            LET node == structures[i].mesh.node IN
            /\ Resolved(node).key = structures[i].metadata.meshId
            /\ \A j \in 1..(node - 1) :
                    Resolved(j).key # structures[i].metadata.meshId
    /\ \A j \in LaterOfSameKey :
            \A i \in DOMAIN structures : structures[i].mesh.node # j
    /\ skippedDuplicate = Cardinality(LaterOfSameKey)

\* C3 witness: hip_bone001 then hip_bone002, both normalizing to hip_bone.
C3_Witness ==
    /\ idx = 2
    /\ scene[1] = "hip_bone001"
    /\ scene[2] = "hip_bone002"
    /\ Resolved(1).key = "hip_bone"
    /\ Resolved(2).key = "hip_bone"
    /\ Len(structures) = 1
    /\ structures[1].uniqueKey = "hip_bone001"
    /\ skippedDuplicate = 1

\* C7: no emitted structure is one the filter excludes: none is an organ,
\* none has a key containing a noise substring, none has a key matching a
\* suffix pattern.
C7_NoExcludedBound ==
    \A i \in DOMAIN structures :
        LET key == structures[i].metadata.meshId IN
        /\ structures[i].metadata.type # "organ"
        /\ ~\E pattern \in EXCLUDE_NAME_PATTERNS : includes(key, pattern)
        /\ ~matchesSuffixPattern(key)

\* C7 witness: a finished pass that met an organ, a reference plane and a
\* suffixed part in some order, filtered two of them and bound something.
C7_Witness ==
    /\ PassDone
    /\ \E j \in 1..idx : Resolved(j) # NoMatch /\ Resolved(j).data.type = "organ"
    /\ \E j \in 1..idx : Resolved(j) # NoMatch /\ matchesSuffixPattern(Resolved(j).key)
    /\ skippedByTypeOrName = 2
    /\ Len(structures) = 1

\* The positions whose mesh resolves to a key the filter excludes.
ExcludedPositions ==
    {j \in 1..idx :
        /\ Resolved(j) # NoMatch
        /\ ~shouldRenderByTypeAndName(Resolved(j).data)}

\* C15 as stated: a mesh whose matched key the filter excludes still consumes
\* the key, so only the first such mesh is counted as filtered and every
\* later mesh resolving to the same key is counted as a duplicate.
C15_Original ==
    /\ \A j \in ExcludedPositions : Resolved(j).key \in usedMetadataKeys
    /\ skippedByTypeOrName =
            Cardinality({Resolved(j).key : j \in ExcludedPositions})

\* C15 amended: the filter is applied before the key is marked as used: a
\* mesh whose matched key the filter excludes does not consume the key, so
\* it and every later mesh resolving to the same key are each counted as
\* filtered, none of them as a duplicate.
C15_Amended ==
    /\ \A j \in ExcludedPositions : Resolved(j).key \notin usedMetadataKeys
    /\ skippedByTypeOrName = Cardinality(ExcludedPositions)
    /\ skippedDuplicate = Cardinality(LaterOfSameKey)

\* C15 witness: two meshes resolving to the same excluded key, both counted
\* as filtered and none as a duplicate.
C15_Witness ==
    /\ idx >= 2
    /\ {1, 2} \subseteq ExcludedPositions
    /\ Resolved(1).key = Resolved(2).key
    /\ skippedByTypeOrName = 2
    /\ skippedDuplicate = 0

\* C19: every mesh traversed ends as exactly one of bound, unmatched,
\* duplicate or filtered: the four counts add up to the number of meshes
\* traversed.
C19_OutcomesPartition ==
    Len(structures) + unmatchedCount + skippedDuplicate + skippedByTypeOrName = idx

\* C19 witness: a finished pass of three meshes, one bound, one unmatched and
\* one skipped.
C19_Witness ==
    /\ PassDone
    /\ idx = 3
    /\ Len(structures) = 1
    /\ unmatchedCount = 1
    /\ skippedDuplicate + skippedByTypeOrName = 1

(***************************************************************************)
(* Visibility / highlight resolution: the render body of StructureMesh.     *)
(* Every operator takes the ProcessedStructure the component was given and  *)
(* reads the store and the component's own state.                           *)
(***************************************************************************)
TYPE_COLORS ==
    [bone      |-> [default |-> "#E8DCC4", highlight |-> "#FFF8E7"],
     muscle    |-> [default |-> "#C41E3A", highlight |-> "#FF4D6A"],
     organ     |-> [default |-> "#8B4557", highlight |-> "#A85A6F"],
     tendon    |-> [default |-> "#D4A574", highlight |-> "#E8C9A0"],
     ligament  |-> [default |-> "#8B7355", highlight |-> "#A89070"],
     cartilage |-> [default |-> "#A8D5BA", highlight |-> "#C5E8D2"],
     fascia    |-> [default |-> "#D4A5A5", highlight |-> "#E8C5C5"]]

TYPE_TO_VISIBILITY_KEY ==
    [bone      |-> "bones",
     muscle    |-> "muscles",
     organ     |-> "organs",
     tendon    |-> "tendons",
     ligament  |-> "ligaments",
     cartilage |-> "bones",
     fascia    |-> "muscles"]

\* The colour a search match is drawn in.
SearchColor == "#FFD700"

\* TYPE_COLORS[metadata.type] || TYPE_COLORS.muscle
colors(s) ==
    IF s.metadata.type \in DOMAIN TYPE_COLORS
    THEN TYPE_COLORS[s.metadata.type]
    ELSE TYPE_COLORS["muscle"]

\* What the StructureMesh under the key k reads when it renders: the store's
\* fields and its own hovered state.
View(k) ==
    [hoveredStructureId  |-> hoveredStructureId,
     selectedStructureId |-> selectedStructureId,
     peelDepth           |-> peelDepth,
     searchQuery         |-> searchQuery,
     hovered             |-> hovered[k]]

isSelectedIn(s, v) == v.selectedStructureId = s.metadata.meshId

\* Variant of matchesSearch that accepts a query of one character.
matchesSearchIn_OneChar(s, v) ==
    /\ Len(v.searchQuery) >= 1
    /\ \/ includes(toLowerCase(s.metadata.meshId), toLowerCase(v.searchQuery))
       \/ includes(toLowerCase(s.metadata.originalName), toLowerCase(v.searchQuery))

matchesSearchIn(s, v) ==
    /\ Len(v.searchQuery) > 1
    /\ \/ includes(toLowerCase(s.metadata.meshId), toLowerCase(v.searchQuery))
       \/ includes(toLowerCase(s.metadata.originalName), toLowerCase(v.searchQuery))

isHighlightedIn(s, v) ==
    \/ v.hovered
    \/ isSelectedIn(s, v)
    \/ v.hoveredStructureId = s.metadata.meshId
    \/ matchesSearchIn(s, v)

\* TYPE_TO_VISIBILITY_KEY[metadata.type] || 'muscles'
visibilityKey(s) ==
    IF s.metadata.type \in DOMAIN TYPE_TO_VISIBILITY_KEY
    THEN TYPE_TO_VISIBILITY_KEY[s.metadata.type]
    ELSE "muscles"

isTypeVisibleIn(s, visibility) == visibility[visibilityKey(s)]

maxVisibleLayerIn(v) == 3 - v.peelDepth

\* Variant of isPeeled that peels the low layer numbers first.
isPeeledIn_ShallowFirst(s, v) == s.metadata.layer < v.peelDepth

\* Variant of isPeeled that peels the boundary layer too.
isPeeledIn_Inclusive(s, v) == s.metadata.layer >= maxVisibleLayerIn(v)

isPeeledIn(s, v) == s.metadata.layer > maxVisibleLayerIn(v)

shouldPeelIn(s, v) == isPeeledIn(s, v) /\ ~matchesSearchIn(s, v)

\* Opacities are in hundredths: 100 is 1, 90 is 0.9.
targetOpacityIn(s, v) ==
    IF shouldPeelIn(s, v) THEN 0
    ELSE IF s.metadata.type = "bone" THEN 100 ELSE 90

\* Variant of targetColor that lets the highlight go before the search match.
targetColorIn_HighlightFirst(s, v) ==
    IF isHighlightedIn(s, v) /\ ~shouldPeelIn(s, v) THEN colors(s).highlight
    ELSE IF matchesSearchIn(s, v) THEN SearchColor
    ELSE colors(s).default

\* The targetColor the useFrame callback lerps to.
targetColorIn(s, v) ==
    IF matchesSearchIn(s, v) THEN SearchColor
    ELSE IF isHighlightedIn(s, v) /\ ~shouldPeelIn(s, v) THEN colors(s).highlight
    ELSE colors(s).default

\* The values of the render body in the current state.
isSelected(s) == isSelectedIn(s, View(s.uniqueKey))

matchesSearch(s) == matchesSearchIn(s, View(s.uniqueKey))

isHighlighted(s) == isHighlightedIn(s, View(s.uniqueKey))

isTypeVisible(s) == isTypeVisibleIn(s, layerVisibility)

maxVisibleLayer == 3 - peelDepth

isPeeled(s) == isPeeledIn(s, View(s.uniqueKey))

shouldPeel(s) == shouldPeelIn(s, View(s.uniqueKey))

targetOpacity(s) == targetOpacityIn(s, View(s.uniqueKey))

targetColor(s) == targetColorIn(s, View(s.uniqueKey))

(***************************************************************************)
(* The interaction store's actions (useAnatomyStore).                       *)
(***************************************************************************)
\* set-hovered(key | null)
setHoveredStructure(id) == id

\* set-selected(key | null): invoked with the selected key it clears the
\* selection.
setSelectedStructure(current, id) == IF id = current THEN Null ELSE id

toggleLayer(visibility, key) == [visibility EXCEPT ![key] = ~@]

showAllLayers == [k \in LayerKeys |-> TRUE]

hideAllLayers == [k \in LayerKeys |-> FALSE]

(***************************************************************************)
(* The mounted viewer: one StructureMesh per processed structure.           *)
(***************************************************************************)
Mounted == {structures[i] : i \in DOMAIN structures}

Handles == {s.uniqueKey : s \in Mounted}

\* The queries typed into the search box.
Queries == {"", "h", "BONE", "Hip b", "soas", "zz"}

ViewCatalog == CatalogOf({"hip_bone", "psoas_major", "vagus_nerve", "liver"})

ViewScenes ==
    {<<"hip_bone001", "hip_bone002", "psoas_major001">>,
     <<"Vagus_Nerve", "liver001", "Hip_Bone">>}

\* The queries typed while the animation is watched.
AnimQueries == {"", "soas"}

\* The scenes of one mesh the animation is watched on.
AnimScenes == {<<"hip_bone001">>, <<"psoas_major001">>}

\* The scene of two meshes the frames are counted on.
FrameScenes == {<<"hip_bone001", "psoas_major001">>}

\* The StructureMesh mounted under the key k.
StructureOf(k) == CHOOSE s \in Mounted : s.uniqueKey = k

\* const isInteractive = animatedOpacity.current > 0.1
isInteractiveAt(opacity) == opacity > 10

\* Variant of the opacity step that moves eight tenths of the way.
lerpOpacity_EightTenths(displayed, target) ==
    IF target >= displayed
    THEN displayed + ((target - displayed) * 8 + 5) \div 10
    ELSE displayed - ((displayed - target) * 8 + 5) \div 10

\* animatedOpacity.current += (targetOpacity - animatedOpacity.current) * 0.08
\* on hundredths, the product rounded to the nearest hundredth.
lerpOpacity(displayed, target) ==
    IF target >= displayed
    THEN displayed + ((target - displayed) * 8 + 50) \div 100
    ELSE displayed - ((displayed - target) * 8 + 50) \div 100

\* What the render of the mesh s hands to its useFrame callback.
Render(s, v) ==
    [targetOpacity |-> targetOpacityIn(s, v), targetColor |-> targetColorIn(s, v)]

\* Variant of the re-render in which a store change reaches no component:
\* only a component whose own hovered state was set renders again.
RenderAll_LocalStateOnly(visibility) ==
    /\ isInteractive' =
            [k \in Handles |->
                IF hovered'[k] # hovered[k]
                THEN isInteractiveAt(animatedOpacity[k])
                ELSE isInteractive[k]]
    /\ closure' =
            [k \in Handles |->
                IF hovered'[k] # hovered[k]
                THEN Render(StructureOf(k), View(k)')
                ELSE closure[k]]
    /\ fatal' = \E s \in Mounted : ~isTypeVisibleIn(s, visibility)

\* Every StructureMesh subscribes to the whole store, so a store change
\* renders them all again in one commit: each captures isInteractive and the
\* targets of its useFrame callback anew from the state the handler leaves.
\* A component whose category is switched off returns before its useEffect;
\* having rendered with it before, it renders fewer hooks and React throws.
RenderAll(visibility) ==
    /\ isInteractive' = [k \in Handles |-> isInteractiveAt(animatedOpacity[k])]
    /\ closure' = [k \in Handles |-> Render(StructureOf(k), View(k)')]
    /\ fatal' = \E s \in Mounted : ~isTypeVisibleIn(s, visibility)

\* The viewer mounted on one of the scenes: the binding pass has run, every
\* StructureMesh has rendered once against the store's defaults.
Mount(scenes) ==
    /\ InitHarnessIdle
    /\ catalog = ViewCatalog
    /\ scene \in scenes
    /\ idx = Len(scene)
    /\ LET st == BindPrefix(scene, Len(scene), catalog) IN
        /\ structures = st.structures
        /\ usedMetadataKeys = st.usedMetadataKeys
        /\ skippedByTypeOrName = st.skippedByTypeOrName
        /\ skippedDuplicate = st.skippedDuplicate
        /\ unmatchedCount = st.unmatchedCount
    /\ InitStoreDefaults
    /\ hovered = [k \in Handles |-> FALSE]
    /\ animatedOpacity = [k \in Handles |-> 100]
    /\ isInteractive = [k \in Handles |-> TRUE]
    /\ closure = [k \in Handles |-> Render(StructureOf(k), View(k))]
    /\ pointerAt = Null
    /\ fatal = FALSE
    /\ frames = 0
    /\ lastEvent = Event("none", Null, animatedOpacity, Null, Null)

InitView == Mount(ViewScenes)

\* onPointerOver of the mesh s: the pointer comes to rest on it.  The
\* raycaster hits the mesh only if its last render left raycast in place.
OnPointerOver(s) ==
    /\ ~fatal
    /\ pointerAt = Null
    /\ isInteractive[s.uniqueKey]
    /\ pointerAt' = s.uniqueKey
    /\ hovered' = [hovered EXCEPT ![s.uniqueKey] = TRUE]
    /\ hoveredStructureId' = setHoveredStructure(s.metadata.meshId)
    /\ lastEvent' = Event("over", s.uniqueKey, animatedOpacity,
                          selectedStructureId, hoveredStructureId)
    /\ UNCHANGED <<normVars, catalog, bindVars, selectedStructureId,
                   layerVisibility, peelDepth, searchQuery, animatedOpacity, frames>>
    /\ RenderAll(layerVisibility)

\* onPointerOut of the mesh s: the pointer leaves it, or the mesh is no
\* longer hit; the handler of the last render runs.
OnPointerOut(s) ==
    /\ ~fatal
    /\ pointerAt = s.uniqueKey
    /\ pointerAt' = Null
    /\ lastEvent' = Event("out", s.uniqueKey, animatedOpacity,
                          selectedStructureId, hoveredStructureId)
    /\ UNCHANGED <<normVars, catalog, bindVars, selectedStructureId,
                   layerVisibility, peelDepth, searchQuery, animatedOpacity, frames>>
    /\ IF isInteractive[s.uniqueKey]
       THEN /\ hovered' = [hovered EXCEPT ![s.uniqueKey] = FALSE]
            /\ hoveredStructureId' = setHoveredStructure(Null)
            /\ RenderAll(layerVisibility)
       ELSE UNCHANGED <<hovered, hoveredStructureId, isInteractive, closure, fatal>>

\* Variant of onClick with the branches of the conditional exchanged.
OnClick_Exchanged(s) ==
    /\ ~fatal
    /\ isInteractive[s.uniqueKey]
    /\ selectedStructureId' =
            setSelectedStructure(selectedStructureId,
                                 IF isSelected(s) THEN s.metadata.meshId ELSE Null)
    /\ lastEvent' = Event("click", s.uniqueKey, animatedOpacity,
                          selectedStructureId, hoveredStructureId)
    /\ UNCHANGED <<normVars, catalog, bindVars, hoveredStructureId, layerVisibility,
                   peelDepth, searchQuery, hovered, animatedOpacity, pointerAt, frames>>
    /\ RenderAll(layerVisibility)

\* onClick of the mesh s.
OnClick(s) ==
    /\ ~fatal
    /\ isInteractive[s.uniqueKey]
    /\ selectedStructureId' =
            setSelectedStructure(selectedStructureId,
                                 IF isSelected(s) THEN Null ELSE s.metadata.meshId)
    /\ lastEvent' = Event("click", s.uniqueKey, animatedOpacity,
                          selectedStructureId, hoveredStructureId)
    /\ UNCHANGED <<normVars, catalog, bindVars, hoveredStructureId, layerVisibility,
                   peelDepth, searchQuery, hovered, animatedOpacity, pointerAt, frames>>
    /\ RenderAll(layerVisibility)

\* The record of a handler that only writes the store.
StoreEvent == Event("store", Null, animatedOpacity, selectedStructureId',
                    hoveredStructureId')

\* The info panel's close button.
ClosePanel ==
    /\ ~fatal
    /\ selectedStructureId # Null
    /\ selectedStructureId' = setSelectedStructure(selectedStructureId, Null)
    /\ UNCHANGED <<normVars, catalog, bindVars, hoveredStructureId, layerVisibility,
                   peelDepth, searchQuery, hovered, animatedOpacity, pointerAt, frames>>
    /\ lastEvent' = StoreEvent
    /\ RenderAll(layerVisibility)

\* A layer button of the view controls.
ToggleLayer(key) ==
    /\ ~fatal
    /\ layerVisibility' = toggleLayer(layerVisibility, key)
    /\ UNCHANGED <<normVars, catalog, bindVars, hoveredStructureId, selectedStructureId,
                   peelDepth, searchQuery, hovered, animatedOpacity, pointerAt, frames>>
    /\ lastEvent' = StoreEvent
    /\ RenderAll(layerVisibility')

ShowAllLayers ==
    /\ ~fatal
    /\ layerVisibility' = showAllLayers
    /\ UNCHANGED <<normVars, catalog, bindVars, hoveredStructureId, selectedStructureId,
                   peelDepth, searchQuery, hovered, animatedOpacity, pointerAt, frames>>
    /\ lastEvent' = StoreEvent
    /\ RenderAll(layerVisibility')

HideAllLayers ==
    /\ ~fatal
    /\ layerVisibility' = hideAllLayers
    /\ UNCHANGED <<normVars, catalog, bindVars, hoveredStructureId, selectedStructureId,
                   peelDepth, searchQuery, hovered, animatedOpacity, pointerAt, frames>>
    /\ lastEvent' = StoreEvent
    /\ RenderAll(layerVisibility')

SetSearchQuery(q) ==
    /\ ~fatal
    /\ searchQuery' = q
    /\ UNCHANGED <<normVars, catalog, bindVars, hoveredStructureId, selectedStructureId,
                   layerVisibility, peelDepth, hovered, animatedOpacity, pointerAt, frames>>
    /\ lastEvent' = StoreEvent
    /\ RenderAll(layerVisibility)

SetPeelDepth(n) ==
    /\ ~fatal
    /\ peelDepth' = n
    /\ UNCHANGED <<normVars, catalog, bindVars, hoveredStructureId, selectedStructureId,
                   layerVisibility, searchQuery, hovered, animatedOpacity, pointerAt, frames>>
    /\ lastEvent' = StoreEvent
    /\ RenderAll(layerVisibility)

\* One frame: the useFrame callback of every mounted StructureMesh runs, with
\* the targets its last render captured.  A frame renders no component again.
\* (The callback also lerps the material's colour to the captured
\* targetColor and sets depthWrite; nothing reads them back.)
Frame ==
    /\ ~fatal
    /\ animatedOpacity' =
            [k \in Handles |->
                lerpOpacity(animatedOpacity[k], closure[k].targetOpacity)]
    /\ lastEvent' = Event("tick", Null, animatedOpacity,
                          selectedStructureId, hoveredStructureId)
    /\ UNCHANGED <<normVars, catalog, bindVars, storeVars, hovered, isInteractive,
                   closure, pointerAt, fatal>>

\* A frame, any number of them.
Tick == Frame /\ UNCHANGED frames

\* A frame where the frames are counted.
CountedTick ==
    /\ frames < MaxFrames
    /\ Frame
    /\ frames' = frames + 1

\* The store's handlers and the pointer handlers, without the frames: what
\* is checked under SpecView are the targets the useFrame callback reads, and
\* animatedOpacity stays at the value it is mounted with.
NextView ==
    \/ \E s \in Mounted : OnPointerOver(s)
    \/ \E s \in Mounted : OnPointerOut(s)
    \/ \E s \in Mounted : OnClick(s)
    \/ ClosePanel
    \/ \E key \in LayerKeys : ToggleLayer(key)
    \/ ShowAllLayers
    \/ HideAllLayers
    \/ \E q \in Queries : SetSearchQuery(q)
    \/ \E n \in 0..MaxPeel : SetPeelDepth(n)

SpecView == InitView /\ [][NextView]_vars

\* One mounted structure, animated for as long as frames are drawn.
InitAnim == Mount(AnimScenes)

NextAnim ==
    \/ Tick
    \/ \E s \in Mounted : OnPointerOver(s)
    \/ \E s \in Mounted : OnPointerOut(s)
    \/ \E s \in Mounted : OnClick(s)
    \/ \E q \in AnimQueries : SetSearchQuery(q)
    \/ \E n \in 0..MaxPeel : SetPeelDepth(n)

SpecAnim == InitAnim /\ [][NextAnim]_vars

\* Two mounted structures and a bounded number of frames.
InitFrame == Mount(FrameScenes)

NextFrame ==
    \/ CountedTick
    \/ \E s \in Mounted : OnPointerOver(s)
    \/ \E s \in Mounted : OnPointerOut(s)
    \/ \E s \in Mounted : OnClick(s)
    \/ \E q \in AnimQueries : SetSearchQuery(q)
    \/ \E n \in 0..MaxPeel : SetPeelDepth(n)

SpecFrame == InitFrame /\ [][NextFrame]_vars

(***************************************************************************)
(* Properties of the resolution (under SpecView).                           *)
(***************************************************************************)
\* q occurs in text when letters are compared without regard to case.
OccursIgnoringCase(q, text) ==
    \E off \in 0..(Len(text) - Len(q)) :
        \A k \in 1..Len(q) :
            LowerChar(CharAt(q, k)) = LowerChar(CharAt(text, off + k))

\* A search hit, stated character by character.
SearchHit(s) ==
    /\ Len(searchQuery) > 1
    /\ \/ OccursIgnoringCase(searchQuery, s.metadata.meshId)
       \/ OccursIgnoringCase(searchQuery, s.metadata.originalName)

\* Hovered locally, selected, or hovered via the store.
Lit(s) ==
    \/ hovered[s.uniqueKey]
    \/ selectedStructureId = s.metadata.meshId
    \/ hoveredStructureId = s.metadata.meshId

\* The depth layer exceeds 3 - peelDepth.
PeeledAway(s) == s.metadata.layer > 3 - peelDepth

\* The non-peeled baseline: 1 for bone, 0.9 for every other category.
Baseline(s) == IF s.metadata.type = "bone" THEN 100 ELSE 90

\* C8: a structure matches the search iff the query is longer than one
\* character and occurs, case ignored, in its key or in its original name;
\* an empty or one-character query matches nothing.
C8_SearchMatch ==
    \A s \in Mounted :
        /\ matchesSearch(s) <=> SearchHit(s)
        /\ Len(searchQuery) <= 1 => ~matchesSearch(s)

\* C8 witness: a capitalised query that matches one mounted structure through
\* its lowercase key and does not match the other.
C8_Witness ==
    /\ searchQuery = "BONE"
    /\ \E s \in Mounted : matchesSearch(s) /\ s.metadata.meshId = "hip_bone"
    /\ \E s \in Mounted : ~matchesSearch(s)

\* C9: the target opacity is 0 exactly when the layer exceeds 3 - peelDepth
\* and the structure does not match the search; otherwise, a peeled structure
\* that matches included, it is the baseline of the category.
C9_TargetOpacity ==
    \A s \in Mounted :
        /\ targetOpacity(s) = 0 <=> (PeeledAway(s) /\ ~SearchHit(s))
        /\ ~(PeeledAway(s) /\ ~SearchHit(s)) => targetOpacity(s) = Baseline(s)

\* C9 witness: two peeled structures, one matching the search and kept at its
\* baseline, the other faded out.
C9_Witness ==
    /\ \E s \in Mounted :
            PeeledAway(s) /\ matchesSearch(s) /\ targetOpacity(s) = Baseline(s)
    /\ \E s \in Mounted :
            PeeledAway(s) /\ ~matchesSearch(s) /\ targetOpacity(s) = 0

\* C10: the target colour is the search colour whenever the structure
\* matches the search; otherwise the category's highlight colour when the
\* structure is hovered or selected and not peeled; otherwise the category's
\* base colour.
C10_ColorPrecedence ==
    \A s \in Mounted :
        targetColor(s) =
            IF SearchHit(s) THEN SearchColor
            ELSE IF Lit(s) /\ ~PeeledAway(s) THEN colors(s).highlight
            ELSE colors(s).default

\* C10 witness: a selected structure that matches the search and is drawn in
\* the search colour, next to a hovered, peeled structure that does not match
\* and is drawn in its base colour.
C10_Witness ==
    /\ \E s \in Mounted :
            /\ matchesSearch(s)
            /\ isSelected(s)
            /\ targetColor(s) = SearchColor
    /\ \E s \in Mounted :
            /\ ~matchesSearch(s)
            /\ hovered[s.uniqueKey]
            /\ PeeledAway(s)
            /\ targetColor(s) = colors(s).default

(***************************************************************************)
(* Properties of the handlers and of the animation.                         *)
(***************************************************************************)
\* The catalog key of the mesh the last handler ran on.
EventMeshId == StructureOf(lastEvent.key).metadata.meshId

\* The last handler was a pointer-over or a click on a mesh displayed at an
\* opacity of 0.1 or less.
FadedInteraction ==
    /\ lastEvent.kind \in {"over", "click"}
    /\ lastEvent.opacity[lastEvent.key] <= 10

\* C11: a pointer-over or a click on a structure displayed at an opacity of
\* 0.1 or less changes neither the hovered key nor the selected key.
C11_NoFadedInteraction ==
    FadedInteraction =>
        /\ hoveredStructureId = lastEvent.hoveredId
        /\ selectedStructureId = lastEvent.selected

\* C12: a click on a structure whose key is selected leaves nothing
\* selected; a click on a structure while another key or nothing is selected
\* leaves its key selected.
C12_SelectionToggles ==
    lastEvent.kind = "click" =>
        selectedStructureId =
            IF lastEvent.selected = EventMeshId THEN Null ELSE EventMeshId

\* C12 witness: the second of two clicks on a structure: its key was
\* selected, now nothing is.
C12_Witness ==
    /\ lastEvent.kind = "click"
    /\ lastEvent.selected = EventMeshId
    /\ selectedStructureId = Null

\* C13: a frame moves every structure toward the target resolved from the
\* one state of the store the frame is drawn in: no structure is moved
\* toward a target resolved from an earlier query, peel depth or selection.
C13_OneSnapshotPerTick ==
    lastEvent.kind = "tick" =>
        \A s \in Mounted :
            animatedOpacity[s.uniqueKey] =
                lerpOpacity(lastEvent.opacity[s.uniqueKey], targetOpacity(s))

\* C13 witness: a frame drawn after the peel depth was raised: one structure
\* fades toward 0 while the other stays at its baseline of 1.
C13_Witness ==
    /\ lastEvent.kind = "tick"
    /\ peelDepth > 0
    /\ \E s1, s2 \in Mounted :
        /\ targetOpacity(s1) = 0
        /\ animatedOpacity[s1.uniqueKey] < lastEvent.opacity[s1.uniqueKey]
        /\ targetOpacity(s2) = 100
        /\ animatedOpacity[s2.uniqueKey] = 100

\* C14: no sequence of store changes and re-renders ends in an error.
C14_NeverFatal == ~fatal

\* C16 as stated: with the shallowest layer numbered 0, peel depth p turns
\* off the p lowest layer numbers: a structure that does not match the search
\* is hidden exactly when its layer number is below p.
C16_Original ==
    \A s \in Mounted :
        ~matchesSearch(s) => (targetOpacity(s) = 0 <=> s.metadata.layer < peelDepth)

\* C16 amended: peel depth p turns off the p highest of the layer numbers
\* 0..3: a structure of these layers that does not match the search is
\* hidden exactly when its layer number is among the p highest, and of two
\* such structures the one with the lower layer number is hidden only if the
\* other is.
C16_Amended ==
    /\ \A s \in Mounted :
            ~matchesSearch(s) /\ s.metadata.layer \in 0..3 =>
                /\ targetOpacity(s) = 0 <=> s.metadata.layer \in (4 - peelDepth)..3
                /\ targetOpacity(s) # 0 => targetOpacity(s) = Baseline(s)
    /\ \A s1, s2 \in Mounted :
            /\ ~matchesSearch(s1)
            /\ ~matchesSearch(s2)
            /\ s1.metadata.layer < s2.metadata.layer
            /\ targetOpacity(s1) = 0
            => targetOpacity(s2) = 0

\* C16 witness: at peel depth 1 a structure of layer 3 is hidden while one
\* of layer 2 stays at its baseline; neither matches the search.
C16_Witness ==
    /\ peelDepth = 1
    /\ \E s1, s2 \in Mounted :
        /\ ~matchesSearch(s1) /\ ~matchesSearch(s2)
        /\ s1.metadata.layer = 3 /\ targetOpacity(s1) = 0
        /\ s2.metadata.layer = 2 /\ targetOpacity(s2) = Baseline(s2)

\* The visibility flag a category uses, as the categories are grouped:
\* bone and cartilage, muscle and fascia, the others on their own, anything
\* else with the muscles.
GroupFlag(type) ==
    IF type \in {"bone", "cartilage"} THEN "bones"
    ELSE IF type = "tendon" THEN "tendons"
    ELSE IF type = "ligament" THEN "ligaments"
    ELSE IF type = "organ" THEN "organs"
    ELSE "muscles"

\* The structure is on screen: the viewer is alive and the component's
\* last render returned its mesh.
Rendered(s) == ~fatal /\ isTypeVisible(s)

\* C17: a bound structure is rendered iff the visibility flag of its
\* category's group is on.
C17_RenderedIffFlagOn ==
    \A s \in Mounted : Rendered(s) <=> layerVisibility[GroupFlag(s.metadata.type)]

\* The distance between a displayed opacity and a target.
Dist(displayed, target) ==
    IF displayed >= target THEN displayed - target ELSE target - displayed

\* The displayed opacity stays between before and target.
Between(before, after, target) ==
    \/ before <= after /\ after <= target
    \/ target <= after /\ after <= before

C20_HoverReleased ==
    lastEvent.kind = "out" =>
        /\ ~hovered[lastEvent.key]
        /\ hoveredStructureId # EventMeshId

====
